---- MODULE Spec2Model ----
(***************************************************************************)
(* Battlesnake decision engine (src/src/logic.rs): the legality filter     *)
(* is_move_safe, the transition simulate_move, the evaluator               *)
(* evaluate_board, the recursive alpha-beta search minimax (as an explicit *)
(* call stack working on one shared, mutated board) and the driver         *)
(* get_move.                                                               *)
(***************************************************************************)
EXTENDS Integers, Sequences, FiniteSets, TLC

\* ------------------------------------------------------------------ bounds
\* Side of the small square grids the search is run on.
GridSize == 3
\* Search depth handed to minimax by get_move. The code uses 14 (logic.rs:471),
\* which no exhaustive exploration reaches; the model runs the same search at
\* this depth.
SearchDepth == 4

\* --------------------------------------------------------------- constants
I32_MAX == 2147483647
I32_MIN == -I32_MAX - 1
MAX_HEALTH == 100

directions == <<"up", "down", "left", "right">>
\* Direction strings handed to the pure functions: the four moves and "none",
\* minimax's placeholder, which is no move.
AnyDirection == {"up", "down", "left", "right", "none"}

Coord(x, y) == [x |-> x, y |-> y]
Abs(n) == IF n < 0 THEN -n ELSE n
Min2(a, b) == IF a < b THEN a ELSE b
Max2(a, b) == IF a > b THEN a ELSE b
Manhattan(a, b) == Abs(a.x - b.x) + Abs(a.y - b.y)

\* body.iter().any(|segment| segment.x == x && segment.y == y)
BodyHas(body, c) == \E k \in DOMAIN body : body[k] = c

InGrid(board, c) ==
    c.x >= 0 /\ c.x < board.width /\ c.y >= 0 /\ c.y < board.height

\* Delta with the y axis upside down: "up" decreases y.
Delta_flipped(dir) ==
    CASE dir = "up" -> Coord(0, -1)
      [] dir = "down" -> Coord(0, 1)
      [] dir = "left" -> Coord(-1, 0)
      [] dir = "right" -> Coord(1, 0)
      [] OTHER -> Coord(0, 0)

\* The (dx, dy) of a direction string; simulate_move maps anything else to (0, 0).
Delta(dir) ==
    CASE dir = "up" -> Coord(0, 1)
      [] dir = "down" -> Coord(0, -1)
      [] dir = "left" -> Coord(-1, 0)
      [] dir = "right" -> Coord(1, 0)
      [] OTHER -> Coord(0, 0)

NewHead(snake, dir) ==
    Coord(snake.body[1].x + Delta(dir).x, snake.body[1].y + Delta(dir).y)

\* ------------------------------------------------------------ is_move_safe
\* is_move_safe with the bounds test off by one (> for >=).
is_move_safe_loose(board, you, direction) ==
    LET head == you.body[1]
        new == NewHead(you, direction)
        binding == << Coord(new.x + 1, new.y), Coord(new.x - 1, new.y),
                      Coord(new.x, new.y + 1), Coord(new.x, new.y - 1) >>
        surrounding_positions ==
            { binding[k] : k \in { j \in 1..4 :
                  /\ InGrid(board, binding[j])
                  /\ (binding[j] # head \/ Len(you.body) = 1) } }
    IN  /\ direction \in {"up", "down", "left", "right"}
        \* out-of-bounds movement
        /\ ~ (new.x < 0 \/ new.x > board.width \/ new.y < 0 \/ new.y > board.height)
        \* collisions with itself
        /\ ~ BodyHas(you.body, new)
        \* collisions with other snakes (every segment of every snake)
        /\ ~ \E s \in DOMAIN board.snakes : BodyHas(board.snakes[s].body, new)
        \* head-to-head on the target cell unless we are longer
        /\ ~ \E s \in DOMAIN board.snakes :
               /\ board.snakes[s].id # you.id
               /\ Len(board.snakes[s].body) > 0
               /\ board.snakes[s].body[1] = new
               /\ Len(board.snakes[s].body) >= Len(you.body)
        \* a rival head next to the target cell unless we are longer
        /\ ~ \E s \in DOMAIN board.snakes :
               /\ board.snakes[s].id # you.id
               /\ board.snakes[s].body[1] \in surrounding_positions
               /\ Len(board.snakes[s].body) >= Len(you.body)

is_move_safe(board, you, direction) ==
    LET head == you.body[1]
        new == NewHead(you, direction)
        binding == << Coord(new.x + 1, new.y), Coord(new.x - 1, new.y),
                      Coord(new.x, new.y + 1), Coord(new.x, new.y - 1) >>
        surrounding_positions ==
            { binding[k] : k \in { j \in 1..4 :
                  /\ InGrid(board, binding[j])
                  /\ (binding[j] # head \/ Len(you.body) = 1) } }
    IN  /\ direction \in {"up", "down", "left", "right"}
        \* out-of-bounds movement
        /\ ~ (new.x < 0 \/ new.x >= board.width \/ new.y < 0 \/ new.y >= board.height)
        \* collisions with itself
        /\ ~ BodyHas(you.body, new)
        \* collisions with other snakes (every segment of every snake)
        /\ ~ \E s \in DOMAIN board.snakes : BodyHas(board.snakes[s].body, new)
        \* head-to-head on the target cell unless we are longer
        /\ ~ \E s \in DOMAIN board.snakes :
               /\ board.snakes[s].id # you.id
               /\ Len(board.snakes[s].body) > 0
               /\ board.snakes[s].body[1] = new
               /\ Len(board.snakes[s].body) >= Len(you.body)
        \* a rival head next to the target cell unless we are longer
        /\ ~ \E s \in DOMAIN board.snakes :
               /\ board.snakes[s].id # you.id
               /\ board.snakes[s].body[1] \in surrounding_positions
               /\ Len(board.snakes[s].body) >= Len(you.body)

\* ----------------------------------------------------------- simulate_move
\* health and length are signed 32-bit counters: health -= 1 goes below 0
\* without wrapping, far from the i32 range at the depths searched.
\* board.food.iter().position(..): the first index holding the coordinate, 0 if none.
FoodPosition(food, c) ==
    IF \E k \in DOMAIN food : food[k] = c
    THEN CHOOSE k \in DOMAIN food :
             food[k] = c /\ \A j \in DOMAIN food : food[j] = c => k <= j
    ELSE 0

\* Vec::remove(index)
RemoveAt(seq, index) ==
    [k \in 1..(Len(seq) - 1) |-> IF k < index THEN seq[k] ELSE seq[k + 1]]

\* Vec::pop(): drops the last element (nothing to drop on an empty vector).
Pop(seq) == IF Len(seq) = 0 THEN seq ELSE SubSeq(seq, 1, Len(seq) - 1)

\* simulate_move that drops the tail also when the mover eats.
simulate_move_eat_pops(board, snake_id, move_dir) ==
    LET snake == board.snakes[snake_id]
        new_head == NewHead(snake, move_dir)
        index == FoodPosition(board.food, new_head)
    IN  IF index # 0
        THEN [board EXCEPT
                !.snakes[snake_id] =
                    [snake EXCEPT !.health = MAX_HEALTH,
                                  !.length = snake.length + 1,
                                  !.body = <<new_head>> \o Pop(snake.body)],
                !.food = RemoveAt(board.food, index)]
        ELSE [board EXCEPT
                !.snakes[snake_id] =
                    [snake EXCEPT !.health = snake.health - 1,
                                  !.body = <<new_head>> \o Pop(snake.body)]]

\* simulate_move that keeps the tail also when the mover does not eat.
simulate_move_keeps_tail(board, snake_id, move_dir) ==
    LET snake == board.snakes[snake_id]
        new_head == NewHead(snake, move_dir)
        index == FoodPosition(board.food, new_head)
    IN  IF index # 0
        THEN [board EXCEPT
                !.snakes[snake_id] =
                    [snake EXCEPT !.health = MAX_HEALTH,
                                  !.length = snake.length + 1,
                                  !.body = <<new_head>> \o snake.body],
                !.food = RemoveAt(board.food, index)]
        ELSE [board EXCEPT
                !.snakes[snake_id] =
                    [snake EXCEPT !.health = snake.health - 1,
                                  !.body = <<new_head>> \o snake.body]]

simulate_move(board, snake_id, move_dir) ==
    LET snake == board.snakes[snake_id]
        new_head == NewHead(snake, move_dir)
        index == FoodPosition(board.food, new_head)
    IN  IF index # 0
        THEN [board EXCEPT
                !.snakes[snake_id] =
                    [snake EXCEPT !.health = MAX_HEALTH,
                                  !.length = snake.length + 1,
                                  !.body = <<new_head>> \o snake.body],
                !.food = RemoveAt(board.food, index)]
        ELSE [board EXCEPT
                !.snakes[snake_id] =
                    [snake EXCEPT !.health = snake.health - 1,
                                  !.body = <<new_head>> \o Pop(snake.body)]]

\* ---------------------------------------------------------- evaluate_board
\* min_by_key over the food: the first item at the least Manhattan distance.
NearestFood(food, head) ==
    CHOOSE k \in DOMAIN food :
        \A j \in DOMAIN food :
            \/ Manhattan(food[k], head) < Manhattan(food[j], head)
            \/ (Manhattan(food[k], head) = Manhattan(food[j], head) /\ k <= j)

predict_snake_move_towards_food(snake, board) ==
    LET head == snake.body[1] IN
    IF Len(board.food) = 0 THEN head
    ELSE LET food == board.food[NearestFood(board.food, head)] IN
         CASE food.x > head.x -> Coord(head.x + 1, head.y)
           [] food.x < head.x -> Coord(head.x - 1, head.y)
           [] food.x = head.x /\ food.y > head.y -> Coord(head.x, head.y + 1)
           [] food.x = head.x /\ food.y < head.y -> Coord(head.x, head.y - 1)
           [] OTHER -> head

\* The least element of a non-empty set of integers, I32_MAX for the empty set.
MinOrMax(S) == IF S = {} THEN I32_MAX ELSE CHOOSE m \in S : \A n \in S : m <= n

evaluate_board(board, you_id) ==
    LET you == board.snakes[you_id]
        head == you.body[1]
        just_ate_food == you.health = MAX_HEALTH
        dead == you.health = 0
        min_food_distance ==
            MinOrMax({ Manhattan(board.food[k], head) : k \in DOMAIN board.food })
        min_enemy_distance ==
            MinOrMax({ Manhattan(predict_snake_move_towards_food(board.snakes[s], board), head) :
                       s \in { t \in DOMAIN board.snakes : board.snakes[t].id # you.id } })
        neighbours == { NewHead(you, directions[k]) : k \in 1..4 }
        free_space ==
            Cardinality({ c \in neighbours :
                /\ InGrid(board, c)
                /\ ~ BodyHas(you.body, c)
                /\ ~ \E s \in DOMAIN board.snakes : BodyHas(board.snakes[s].body, c) })
    IN  (IF just_ate_food THEN 500000 ELSE 0)
        + (IF min_food_distance # I32_MAX
           THEN (22 - min_food_distance) * (100 + (100 - you.health)) ELSE 0)
        - (IF dead THEN 5500 ELSE 0)
        + you.health
        - (IF min_enemy_distance # I32_MAX THEN (22 - min_enemy_distance) * 100 ELSE 0)
        + free_space * 10

\* ------------------------------------------------------------------- state
VARIABLES
    GAME_STARTED,   \* static mut GAME_STARTED
    board,          \* the request's board snapshot (get_move's `board`)
    you_index,      \* which snake of `board` the request names as `you`
    cloned_board,   \* get_move's cloned_board, the one board minimax mutates
    stack,          \* the active minimax calls, outermost first
    ret,            \* the (score, move) a minimax call has just returned, or NoRet
    pc,             \* "idle" | "minimax" | "responded" | "panicked" | "sim"
    responses,      \* the previous and the latest answer of get_move: the emitted
                    \* move and the (score, best_move) the search returned
    entered,        \* history: cloned_board as it was when each active call was entered
    sim_log,        \* history: the latest simulate_move calls (board before, snake, direction)
                    \* of the search (the last one) or of the round being simulated
    deadline_elapsed \* environment: the deadline of the tick being answered has passed

vars == << GAME_STARTED, board, you_index, cloned_board, stack, ret, pc,
           responses, entered, sim_log, deadline_elapsed >>

NoRet == [score |-> 0, move |-> "-"]
NoSnake == [id |-> 0, body |-> << >>, health |-> 0, length |-> 0]
Top == stack[Len(stack)]

\* One minimax activation: its parameters and locals. dir is the position of the
\* for loop in `directions` (5: the loop is over, also after a break).
Frame(depth, alpha, beta, current_player_index) ==
    [depth |-> depth, alpha |-> alpha, beta |-> beta,
     current_player_index |-> current_player_index,
     dir |-> 1,
     best_score |-> IF current_player_index = you_index THEN I32_MIN ELSE I32_MAX,
     current_best_move |-> "none",
     move_found |-> FALSE,
     original_snake |-> NoSnake]

\* ------------------------------------------------------------- root boards
Cells(w, h) == { Coord(x, y) : x \in 0..(w - 1), y \in 0..(h - 1) }
Adjacent(a, b) == Manhattan(a, b) = 1

Snake(id, body, health) ==
    [id |-> id, body |-> body, health |-> health, length |-> Len(body)]

Board(w, h, snakes, food) ==
    [width |-> w, height |-> h, snakes |-> snakes, food |-> food]

Covered(snakes, c) == \E s \in DOMAIN snakes : BodyHas(snakes[s].body, c)

\* Health of a lone controlled snake: starving, mid, full.
YouHealth == {1, 50, MAX_HEALTH}

SmallCells == Cells(GridSize, GridSize)
\* Where a small root board may hold the rival (the second column) and the
\* food (the bottom row).
RivalCells == { c \in SmallCells : c.x = 1 }
FoodCells == { c \in SmallCells : c.y = 0 }

\* Small root boards: a one-segment controlled snake anywhere on the grid,
\* alone (at each health) or with a one-segment rival (both at health 50), and
\* no food or one item on a free cell.
SmallSnakes ==
    { << Snake(1, <<c>>, hp) >> : c \in SmallCells, hp \in YouHealth } \cup
    { t \in { << Snake(1, <<c1>>, 50), Snake(2, <<c2>>, 50) >> :
                   c1 \in SmallCells, c2 \in RivalCells } :
        t[1].body # t[2].body }

SmallBoards ==
    UNION { { Board(GridSize, GridSize, ss, f) :
                f \in { << >> } \cup { <<c>> : c \in { d \in FoodCells : ~ Covered(ss, d) } } } :
            ss \in SmallSnakes }

\* The 11 x 11 scenario: a lone snake of three segments, head on (5,5), health
\* 50, one food item on (5,8). The body is stacked on the head, or straight or
\* bent behind it, leaving the cell above the head free.
ScenarioBodies ==
    { << Coord(5, 5), n, t >> :
        n \in { Coord(5, 5), Coord(5, 4), Coord(4, 5), Coord(6, 5) },
        t \in { Coord(5, 5), Coord(5, 4), Coord(4, 5), Coord(6, 5),
                Coord(5, 3), Coord(3, 5), Coord(7, 5), Coord(4, 4), Coord(6, 4),
                Coord(4, 6), Coord(6, 6) } }

ScenarioBoards ==
    { Board(11, 11, << Snake(1, b, 50) >>, << Coord(5, 8) >>) :
        b \in { c \in ScenarioBodies :
                  /\ (c[2] = c[1] => c[3] = c[1])
                  /\ (c[2] # c[1] => (c[3] = c[2] \/ (Adjacent(c[3], c[2]) /\ c[3] # c[1]))) } }

RootBoards == SmallBoards \cup ScenarioBoards

Init ==
    /\ GAME_STARTED = FALSE
    /\ board \in RootBoards
    /\ you_index = 1
    /\ cloned_board = board
    /\ stack = << >>
    /\ ret = NoRet
    /\ pc = "idle"
    /\ responses = << >>
    /\ entered = << >>
    /\ sim_log = << >>
    /\ deadline_elapsed = FALSE

\* ------------------------------------------------------------------ start
\* start sets GAME_STARTED. The answers recorded before it belong to no game:
\* the record of answers starts afresh.
start ==
    /\ pc \in {"idle", "responded"}
    /\ ~ GAME_STARTED
    /\ GAME_STARTED' = TRUE
    /\ pc' = "idle"
    /\ responses' = << >>
    /\ UNCHANGED << board, you_index, cloned_board, stack, ret, entered, sim_log,
                    deadline_elapsed >>

\* ---------------------------------------------------------------- minimax
\* depth == 0: evaluate the board for the maximizing player and return.
minimax_leaf ==
    /\ pc = "minimax" /\ ret = NoRet /\ stack # << >>
    /\ Top.depth = 0
    /\ ret' = [score |-> evaluate_board(cloned_board, you_index), move |-> "none"]
    /\ stack' = SubSeq(stack, 1, Len(stack) - 1)
    /\ entered' = SubSeq(entered, 1, Len(entered) - 1)
    /\ UNCHANGED << GAME_STARTED, board, you_index, cloned_board, pc,
                    responses, sim_log, deadline_elapsed >>

\* The for loop reaches a direction that is_move_safe rejects: next direction.
minimax_skip ==
    /\ pc = "minimax" /\ ret = NoRet /\ stack # << >>
    /\ Top.depth > 0 /\ Top.dir <= 4
    /\ ~ is_move_safe(cloned_board, cloned_board.snakes[Top.current_player_index],
                      directions[Top.dir])
    /\ stack' = [stack EXCEPT ![Len(stack)].dir = @ + 1]
    /\ UNCHANGED << GAME_STARTED, board, you_index, cloned_board, ret, pc,
                    responses, entered, sim_log, deadline_elapsed >>

\* The for loop reaches a safe direction: remember the mover, simulate the move
\* on the shared board and call minimax for the next player.
minimax_descend ==
    /\ pc = "minimax" /\ ret = NoRet /\ stack # << >>
    /\ Top.depth > 0 /\ Top.dir <= 4
    /\ is_move_safe(cloned_board, cloned_board.snakes[Top.current_player_index],
                    directions[Top.dir])
    /\ LET cur == Top.current_player_index
           moved == simulate_move(cloned_board, cur, directions[Top.dir])
           next_player_index == (cur % Len(cloned_board.snakes)) + 1
       IN  /\ cloned_board' = moved
           /\ stack' = Append(
                  [stack EXCEPT ![Len(stack)].move_found = TRUE,
                                ![Len(stack)].original_snake = cloned_board.snakes[cur]],
                  Frame(Top.depth - 1, Top.alpha, Top.beta, next_player_index))
           /\ entered' = Append(entered, moved)
           /\ sim_log' = << [before |-> cloned_board, snake_id |-> cur,
                              move_dir |-> directions[Top.dir]] >>
    /\ UNCHANGED << GAME_STARTED, board, you_index, ret, pc, responses,
                    deadline_elapsed >>

\* minimax_resume that forgets to put the mover's snake back.
minimax_resume_no_restore ==
    /\ pc = "minimax" /\ ret # NoRet /\ stack # << >>
    /\ LET f == Top
           cur == f.current_player_index
           maximizing == cur = you_index
           score == ret.score
           better == (maximizing /\ score > f.best_score)
                     \/ (~ maximizing /\ score < f.best_score)
           alpha == IF maximizing THEN Max2(f.alpha, score) ELSE f.alpha
           beta == IF maximizing THEN f.beta ELSE Min2(f.beta, score)
       IN  /\ cloned_board' = cloned_board
           /\ stack' = [stack EXCEPT ![Len(stack)] =
                  [f EXCEPT !.best_score = IF better THEN score ELSE @,
                            !.current_best_move = IF better THEN directions[f.dir] ELSE @,
                            !.alpha = alpha,
                            !.beta = beta,
                            !.original_snake = NoSnake,
                            !.dir = IF beta <= alpha THEN 5 ELSE @ + 1]]
    /\ ret' = NoRet
    /\ UNCHANGED << GAME_STARTED, board, you_index, pc, responses, entered,
                    sim_log, deadline_elapsed >>

\* The recursive call has returned: put the mover's snake back, keep the better
\* score and move, tighten alpha or beta, and break on beta <= alpha.
minimax_resume ==
    /\ pc = "minimax" /\ ret # NoRet /\ stack # << >>
    /\ LET f == Top
           cur == f.current_player_index
           maximizing == cur = you_index
           score == ret.score
           better == (maximizing /\ score > f.best_score)
                     \/ (~ maximizing /\ score < f.best_score)
           alpha == IF maximizing THEN Max2(f.alpha, score) ELSE f.alpha
           beta == IF maximizing THEN f.beta ELSE Min2(f.beta, score)
       IN  /\ cloned_board' = [cloned_board EXCEPT !.snakes[cur] = f.original_snake]
           /\ stack' = [stack EXCEPT ![Len(stack)] =
                  [f EXCEPT !.best_score = IF better THEN score ELSE @,
                            !.current_best_move = IF better THEN directions[f.dir] ELSE @,
                            !.alpha = alpha,
                            !.beta = beta,
                            !.original_snake = NoSnake,
                            !.dir = IF beta <= alpha THEN 5 ELSE @ + 1]]
    /\ ret' = NoRet
    /\ UNCHANGED << GAME_STARTED, board, you_index, pc, responses, entered,
                    sim_log, deadline_elapsed >>

\* minimax_return with the two worst scores the wrong way round.
minimax_return_swapped ==
    /\ pc = "minimax" /\ ret = NoRet /\ stack # << >>
    /\ Top.depth > 0 /\ Top.dir = 5
    /\ ret' = IF ~ Top.move_found
              THEN [score |-> IF Top.current_player_index = you_index
                              THEN I32_MAX ELSE I32_MIN,
                    move |-> "none"]
              ELSE [score |-> Top.best_score, move |-> Top.current_best_move]
    /\ stack' = SubSeq(stack, 1, Len(stack) - 1)
    /\ entered' = SubSeq(entered, 1, Len(entered) - 1)
    /\ UNCHANGED << GAME_STARTED, board, you_index, cloned_board, pc,
                    responses, sim_log, deadline_elapsed >>

\* The for loop is over: return the worst score with "none" when no move was
\* safe, the best score and move otherwise.
minimax_return ==
    /\ pc = "minimax" /\ ret = NoRet /\ stack # << >>
    /\ Top.depth > 0 /\ Top.dir = 5
    /\ ret' = IF ~ Top.move_found
              THEN [score |-> IF Top.current_player_index = you_index
                              THEN I32_MIN ELSE I32_MAX,
                    move |-> "none"]
              ELSE [score |-> Top.best_score, move |-> Top.current_best_move]
    /\ stack' = SubSeq(stack, 1, Len(stack) - 1)
    /\ entered' = SubSeq(entered, 1, Len(entered) - 1)
    /\ UNCHANGED << GAME_STARTED, board, you_index, cloned_board, pc,
                    responses, sim_log, deadline_elapsed >>

\* --------------------------------------------------------------- get_move
\* The latest answer becomes the previous one when the next request arrives.
Latest(rs) == IF rs = << >> THEN << >> ELSE << rs[Len(rs)] >>

\* No clone: the search works on the board the previous search left behind.
stale_board == cloned_board

\* board.clone()
clone_board == board

\* A request arrives. Before the game has started the answer is "up"; after it,
\* the board is cloned and minimax is called for the controlled snake. The
\* request starts a tick, whose deadline lies ahead.
get_move_call ==
    /\ pc \in {"idle", "responded"}
    /\ deadline_elapsed' = FALSE
    /\ IF ~ GAME_STARTED
       THEN /\ pc' = "responded"
            /\ responses' = Append(Latest(responses),
                                   [move |-> "up", score |-> 0, best_move |-> "-"])
            /\ UNCHANGED << cloned_board, stack, entered, sim_log >>
       ELSE /\ pc' = "minimax"
            /\ cloned_board' = clone_board
            /\ stack' = << Frame(SearchDepth, I32_MIN, I32_MAX, you_index) >>
            /\ entered' = << clone_board >>
            /\ sim_log' = << >>
            /\ responses' = Latest(responses)
    /\ UNCHANGED << GAME_STARTED, board, you_index, ret >>

\* The moves among up/down/left/right that is_move_safe accepts on the request's board.
safe_moves == { m \in {"up", "down", "left", "right"} :
                  is_move_safe(board, board.snakes[you_index], m) }

\* Emitted whose fallback chooses among all four directions, unfiltered.
Emitted_unfiltered(best_move) ==
    IF best_move # "none" THEN {best_move}
    ELSE IF safe_moves = {} THEN {"panic"} ELSE {"up", "down", "left", "right"}

\* What get_move can emit once the search has returned (score, best_move): the
\* best move, or any safe move when it is "none"; choosing from no safe move
\* is the unwrap of None, a panic.
Emitted(best_move) ==
    IF best_move # "none" THEN {best_move}
    ELSE IF safe_moves = {} THEN {"panic"} ELSE safe_moves

get_move_return ==
    /\ pc = "minimax" /\ ret # NoRet /\ stack = << >>
    /\ \E m \in Emitted(ret.move) :
          /\ responses' = Append(responses,
                 [move |-> m, score |-> ret.score, best_move |-> ret.move])
          /\ pc' = IF m = "panic" THEN "panicked" ELSE "responded"
    /\ ret' = NoRet
    /\ UNCHANGED << GAME_STARTED, board, you_index, cloned_board, stack, entered,
                    sim_log, deadline_elapsed >>

Next ==
    \/ start
    \/ get_move_call
    \/ minimax_leaf
    \/ minimax_skip
    \/ minimax_descend
    \/ minimax_resume
    \/ minimax_return
    \/ get_move_return

Spec == Init /\ [][Next]_vars

\* ------------------------------------------------- the tick's deadline passes
\* The caller's deadline for the tick passes while get_move is searching.
\* get_move receives the game (with its timeout) and reads neither it nor a
\* clock, and minimax takes no deadline: no action above depends on this flag.
deadline_elapses ==
    /\ pc = "minimax"
    /\ ~ deadline_elapsed
    /\ deadline_elapsed' = TRUE
    /\ UNCHANGED << GAME_STARTED, board, you_index, cloned_board, stack, ret, pc,
                    responses, entered, sim_log >>

DeadlineNext ==
    \/ Next
    \/ deadline_elapses

DeadlineSpec == Init /\ [][DeadlineNext]_vars

\* ------------------------------------------------- the search as a function
\* minimax as one recursive function of the board: it returns the score, the
\* move, and the food the call leaves on the shared board (the snakes are put
\* back by every ply; the food vector is what a call may leave changed). With
\* cutoffs = FALSE the two `beta <= alpha` breaks are left out.
RECURSIVE minimax_fn(_, _, _, _, _, _), minimax_loop(_, _, _, _, _, _, _, _, _, _)
minimax_fn(cutoffs, b, depth, alpha, beta, current_player_index) ==
    IF depth = 0
    THEN [score |-> evaluate_board(b, you_index), move |-> "none", food |-> b.food]
    ELSE minimax_loop(cutoffs, b, depth, alpha, beta, current_player_index, 1,
                      IF current_player_index = you_index THEN I32_MIN ELSE I32_MAX,
                      "none", FALSE)

minimax_loop(cutoffs, b, depth, alpha, beta, cur, k, best_score, best_move, move_found) ==
    IF k > 4
    THEN IF ~ move_found
         THEN [score |-> IF cur = you_index THEN I32_MIN ELSE I32_MAX,
               move |-> "none", food |-> b.food]
         ELSE [score |-> best_score, move |-> best_move, food |-> b.food]
    ELSE IF ~ is_move_safe(b, b.snakes[cur], directions[k])
    THEN minimax_loop(cutoffs, b, depth, alpha, beta, cur, k + 1,
                      best_score, best_move, move_found)
    ELSE LET child == minimax_fn(cutoffs, simulate_move(b, cur, directions[k]),
                                 depth - 1, alpha, beta, (cur % Len(b.snakes)) + 1)
             maximizing == cur = you_index
             better == (maximizing /\ child.score > best_score)
                       \/ (~ maximizing /\ child.score < best_score)
             a2 == IF maximizing THEN Max2(alpha, child.score) ELSE alpha
             b2 == IF maximizing THEN beta ELSE Min2(beta, child.score)
         IN  minimax_loop(cutoffs, [b EXCEPT !.food = child.food], depth, a2, b2, cur,
                          IF cutoffs /\ b2 <= a2 THEN 5 ELSE k + 1,
                          IF better THEN child.score ELSE best_score,
                          IF better THEN directions[k] ELSE best_move,
                          TRUE)

\* ------------------------------------------ simulate_move on its own (SimSpec)
RECURSIVE Bodies(_, _, _)
\* Head-first bodies of n segments lying on a simple path of a w x h grid.
Bodies(w, h, n) ==
    IF n = 1 THEN { <<c>> : c \in Cells(w, h) }
    ELSE UNION { { b \o <<c>> : c \in { d \in Cells(w, h) :
                                         Adjacent(d, b[n - 1]) /\ ~ BodyHas(b, d) } } :
                 b \in Bodies(w, h, n - 1) }

\* The cells of FoodCells that no snake covers, as a vector by increasing x.
FoodRow(snakes) ==
    LET xs == { c.x : c \in { d \in FoodCells : ~ Covered(snakes, d) } }
    IN  [k \in 1..Cardinality(xs) |->
            Coord(CHOOSE x \in xs : Cardinality({ y \in xs : y < x }) = k - 1, 0)]

SimBodies == Bodies(GridSize, GridSize, 1) \cup Bodies(GridSize, GridSize, 2)

\* Boards simulate_move is applied to: two snakes of one or two segments that
\* share no cell, the first anywhere (starving or not), the second with its
\* head on the second column, and food on every free cell of the bottom row.
SimSnakes ==
    { t \in { << Snake(1, b1, hp), Snake(2, b2, 50) >> :
                  b1 \in SimBodies, b2 \in SimBodies, hp \in {1, 50} } :
        /\ t[2].body[1] \in RivalCells
        /\ \A k \in DOMAIN t[1].body : ~ BodyHas(t[2].body, t[1].body[k]) }

SimBoards == { Board(GridSize, GridSize, ss, FoodRow(ss)) : ss \in SimSnakes }

SimInit ==
    /\ GAME_STARTED = TRUE
    /\ board \in SimBoards
    /\ you_index = 1
    /\ cloned_board = board
    /\ stack = << >>
    /\ ret = NoRet
    /\ pc = "sim"
    /\ responses = << >>
    /\ entered = << >>
    /\ sim_log = << >>
    /\ deadline_elapsed = FALSE

\* One call of simulate_move on the board, for a snake that has not moved yet
\* in this round, with any direction string.
simulate(snake_id, move_dir) ==
    /\ pc = "sim"
    /\ \A k \in DOMAIN sim_log : sim_log[k].snake_id # snake_id
    /\ cloned_board' = simulate_move(cloned_board, snake_id, move_dir)
    /\ sim_log' = Append(sim_log, [before |-> cloned_board, snake_id |-> snake_id,
                                   move_dir |-> move_dir])
    /\ UNCHANGED << GAME_STARTED, board, you_index, stack, ret, pc, responses, entered,
                    deadline_elapsed >>

SimNext ==
    \E snake_id \in DOMAIN cloned_board.snakes, move_dir \in AnyDirection :
        simulate(snake_id, move_dir)

SimSpec == SimInit /\ [][SimNext]_vars

\* The call stack and the function form of minimax are the same search: they
\* return the same score and move and leave the same food behind.
FnAgreesWithCalls ==
    (pc \in {"responded", "panicked"} /\ responses # << >>
       /\ responses[Len(responses)].best_move # "-") =>
        LET r == minimax_fn(TRUE, board, SearchDepth, I32_MIN, I32_MAX, you_index)
        IN  /\ r.score = responses[Len(responses)].score
            /\ r.move = responses[Len(responses)].best_move
            /\ r.food = cloned_board.food

\* ==================================================================== claims
Moves == {"up", "down", "left", "right"}
Dead(snake) == snake.health = 0 /\ snake.body = << >>
Live(snake) == snake.health > 0 /\ snake.body # << >>

\* The latest simulate_move call of a simulated round: the board before it, the
\* mover before and after, and the cell its head moves to.
SimCalled == pc = "sim" /\ sim_log # << >>
LastCall == sim_log[Len(sim_log)]
MoverBefore == LastCall.before.snakes[LastCall.snake_id]
MoverAfter == cloned_board.snakes[LastCall.snake_id]
Target == NewHead(MoverBefore, LastCall.move_dir)
LandsOnFood == \E k \in DOMAIN LastCall.before.food : LastCall.before.food[k] = Target

\* The search of the latest request has returned (score, best_move) to get_move.
Searched(r) == r.best_move # "-"
Answered == pc \in {"responded", "panicked"} /\ responses # << >>
             /\ Searched(responses[Len(responses)])
LatestAnswer == responses[Len(responses)]

\* A ply is between two directions: its loop has had a recursive call return
\* (the mover's snake is put back) and no call is in flight.
BetweenDirections ==
    /\ pc = "minimax" /\ ret = NoRet /\ stack # << >>
    /\ Top.depth > 0 /\ Top.move_found

\* C1: at every ply, once a recursive call has returned and before the next
\* direction is tried, the board equals the board the ply started with: the
\* mover's snake and the food alike.
C1_RollbackRestoresBoard ==
    BetweenDirections => cloned_board = entered[Len(stack)]

\* C2: once the game has started, a cornered controlled snake (no direction
\* passes is_move_safe on the request's board) still gets one of
\* up/down/left/right from get_move, which does not panic.
C2_CorneredStillAnswers ==
    (Answered /\ GAME_STARTED /\ safe_moves = {}) =>
        (pc # "panicked" /\ LatestAnswer.move \in Moves)

\* C3: a move that lands on food grows the mover by one (length counter and
\* body, new head in front, tail kept), sets its health to 100 and removes
\* exactly the one food item under the new head, the others staying in place.
C3_EatingGrowsAndRemovesOneFood ==
    (SimCalled /\ LandsOnFood) =>
        /\ MoverAfter.length = MoverBefore.length + 1
        /\ Len(MoverAfter.body) = Len(MoverBefore.body) + 1
        /\ MoverAfter.body = << Target >> \o MoverBefore.body
        /\ MoverAfter.health = 100
        /\ Len(cloned_board.food) = Len(LastCall.before.food) - 1
        /\ \E k \in DOMAIN LastCall.before.food :
              /\ LastCall.before.food[k] = Target
              /\ \A j \in DOMAIN cloned_board.food :
                    cloned_board.food[j] =
                        LastCall.before.food[IF j < k THEN j ELSE j + 1]

C3_Witness ==
    /\ SimCalled /\ LandsOnFood
    /\ Len(LastCall.before.food) >= 2
    /\ Len(MoverBefore.body) = 2

\* C4: a move that does not land on food costs the mover exactly one health,
\* keeps its body length and length counter (tail popped, new head in front)
\* and leaves the food as it was.
C4_PlainMoveCostsOneHealth ==
    (SimCalled /\ ~ LandsOnFood) =>
        /\ MoverAfter.health = MoverBefore.health - 1
        /\ Len(MoverAfter.body) = Len(MoverBefore.body)
        /\ MoverAfter.length = MoverBefore.length
        /\ MoverAfter.body[1] = Target
        /\ \A k \in 2..Len(MoverAfter.body) : MoverAfter.body[k] = MoverBefore.body[k - 1]
        /\ cloned_board.food = LastCall.before.food

C4_Witness ==
    /\ SimCalled /\ ~ LandsOnFood
    /\ LastCall.move_dir \in Moves
    /\ Len(MoverBefore.body) = 2
    /\ LastCall.before.food # << >>

\* The rivals whose current head the latest call's mover moved onto.
HeadOnRivals ==
    { s \in DOMAIN LastCall.before.snakes :
        /\ s # LastCall.snake_id
        /\ Live(LastCall.before.snakes[s])
        /\ LastCall.before.snakes[s].body[1] = Target }

\* C5: moving onto another live agent's head kills both agents when their
\* lengths are equal, and exactly the shorter one when they differ.
C5_HeadToHeadEliminates ==
    (SimCalled /\ LastCall.move_dir \in Moves /\ Live(MoverBefore)) =>
        \A s \in HeadOnRivals :
            LET rival == LastCall.before.snakes[s]
                mine == Len(MoverBefore.body)
                theirs == Len(rival.body)
            IN  /\ (mine = theirs => Dead(MoverAfter) /\ Dead(cloned_board.snakes[s]))
                /\ (mine < theirs => Dead(MoverAfter) /\ ~ Dead(cloned_board.snakes[s]))
                /\ (mine > theirs => ~ Dead(MoverAfter) /\ Dead(cloned_board.snakes[s]))

\* C6: is_move_safe rejects every direction whose candidate head lies outside
\* the grid, and every direction string that is not up/down/left/right.
C6_OutOfGridIsUnsafe ==
    pc = "sim" =>
        \A s \in DOMAIN cloned_board.snakes : \A d \in AnyDirection :
            LET snake == cloned_board.snakes[s]
                new == NewHead(snake, d)
            IN  snake.body # << >> =>
                  /\ (d \notin Moves => ~ is_move_safe(cloned_board, snake, d))
                  /\ (~ ( /\ 0 <= new.x /\ new.x < cloned_board.width
                          /\ 0 <= new.y /\ new.y < cloned_board.height )
                        => ~ is_move_safe(cloned_board, snake, d))

\* A snake on the top or right edge has a direction leaving the grid, while
\* another of its directions is accepted.
C6_Witness ==
    /\ pc = "sim"
    /\ \E s \in DOMAIN cloned_board.snakes :
          LET snake == cloned_board.snakes[s] IN
          /\ snake.body[1].x = cloned_board.width - 1
          /\ snake.body[1].y = cloned_board.height - 1
          /\ ~ is_move_safe(cloned_board, snake, "up")
          /\ ~ is_move_safe(cloned_board, snake, "right")
          /\ \E d \in Moves : is_move_safe(cloned_board, snake, d)

\* The root search of the request's board without the two cutoffs.
Unpruned == minimax_fn(FALSE, board, SearchDepth, I32_MIN, I32_MAX, you_index)

\* C7: on two-agent boards the search with its alpha-beta cutoffs returns the
\* root move and root score of the same search without the cutoffs.
C7_PruningKeepsMoveAndScore ==
    (Answered /\ Len(board.snakes) = 2) =>
        /\ LatestAnswer.best_move = Unpruned.move
        /\ LatestAnswer.score = Unpruned.score

\* C8: two searches of the same root board (same depth, same maximizing and
\* starting index) return the same move and the same score.
C8_SearchIsDeterministic ==
    (Len(responses) = 2 /\ Searched(responses[1]) /\ Searched(responses[2])) =>
        /\ responses[1].best_move = responses[2].best_move
        /\ responses[1].score = responses[2].score

\* Two requests were answered by a search that ate the food of its board.
C8_Witness ==
    /\ Len(responses) = 2 /\ Searched(responses[1]) /\ Searched(responses[2])
    /\ board.food # << >> /\ cloned_board.food = << >>
    /\ Len(board.snakes) = 2

\* C9: on the 11 x 11 board with the lone snake of three segments, head on
\* (5,5), health 50, food on (5,8), the engine answers "up".
C9_ScenarioChoosesUp ==
    (Answered /\ board \in ScenarioBoards) =>
        /\ LatestAnswer.best_move = "up"
        /\ LatestAnswer.move = "up"

C9_Witness ==
    /\ Answered /\ board \in ScenarioBoards
    /\ board.snakes[1].body = << Coord(5, 5), Coord(5, 4), Coord(5, 3) >>
    /\ SearchDepth >= 4

\* The two calls of a round in which two agents of equal length each moved
\* into the same cell, which held no snake and no food.
SameCellRound ==
    /\ pc = "sim" /\ Len(sim_log) = 2
    /\ sim_log[1].move_dir \in Moves /\ sim_log[2].move_dir \in Moves
    /\ LET first == board.snakes[sim_log[1].snake_id]
           second == board.snakes[sim_log[2].snake_id]
           cell == NewHead(first, sim_log[1].move_dir)
       IN  /\ Len(first.body) = Len(second.body)
           /\ NewHead(second, sim_log[2].move_dir) = cell
           /\ ~ Covered(board.snakes, cell)
           /\ \A k \in DOMAIN board.food : board.food[k] # cell

\* C10: two agents of equal length that move into the same empty cell within
\* one round are both dead afterwards, whichever of them is processed first.
C10_SameCellKillsBoth ==
    SameCellRound =>
        LET i == sim_log[1].snake_id
            j == sim_log[2].snake_id
            swapped == simulate_move(simulate_move(board, j, sim_log[2].move_dir),
                                     i, sim_log[1].move_dir)
        IN  /\ Dead(cloned_board.snakes[i]) /\ Dead(cloned_board.snakes[j])
            /\ cloned_board = swapped

\* C11: once the deadline of the tick has passed, the search only unwinds: no
\* step makes a further recursive call (the stack of calls does not grow) or
\* applies a further move (no simulate_move call is added), so the decision
\* rests on what had been found by then.
C11_DeadlineUnwinds ==
    [][(deadline_elapsed /\ pc = "minimax") =>
          /\ Len(stack') <= Len(stack)
          /\ sim_log' = sim_log]_vars

\* C12: on every board the search reaches, the health of every agent is an
\* integer from 0 to 100.
C12_HealthInRange ==
    pc = "minimax" =>
        \A s \in DOMAIN cloned_board.snakes :
            cloned_board.snakes[s].health \in 0..MAX_HEALTH

\* C13: a move that does not land on food leaves a mover of health 1 dead
\* (health 0, body cleared), and a mover of higher health alive with its tail
\* removed behind the new head.
C13_StarvationKills ==
    (SimCalled /\ LastCall.move_dir \in Moves /\ ~ LandsOnFood /\ Live(MoverBefore)) =>
        IF MoverBefore.health = 1
        THEN Dead(MoverAfter)
        ELSE /\ Live(MoverAfter)
             /\ MoverAfter.body = << Target >> \o Pop(MoverBefore.body)

\* The live rivals of snake s whose current head is the cell direction d takes
\* the head of s to.
RivalsHeadAt(s, d) ==
    { r \in DOMAIN cloned_board.snakes :
        /\ r # s
        /\ Live(cloned_board.snakes[r])
        /\ cloned_board.snakes[r].body[1] = NewHead(cloned_board.snakes[s], d) }

\* C14: for a direction whose candidate head is another live agent's current
\* head, is_move_safe accepts the move when the mover is strictly longer or of
\* equal length, and rejects it only when the mover is strictly shorter.
C14_HeadToHeadPolicy ==
    pc = "sim" =>
        \A s \in DOMAIN cloned_board.snakes : \A d \in Moves :
            \A r \in RivalsHeadAt(s, d) :
                is_move_safe(cloned_board, cloned_board.snakes[s], d)
                    = (Len(cloned_board.snakes[s].body) >= Len(cloned_board.snakes[r].body))

\* The board with the health of snake s set to h, all else equal.
WithHealth(b, s, h) == [b EXCEPT !.snakes[s].health = h]

\* C15: of two boards that differ only in the reference agent's health (both
\* from 0 to 100), the one with the higher health does not score lower.
C15_EvaluatorMonotonicInHealth ==
    pc = "sim" =>
        \A s \in DOMAIN cloned_board.snakes :
            \A h1 \in 0..MAX_HEALTH : \A h2 \in (h1 + 1)..MAX_HEALTH :
                evaluate_board(WithHealth(cloned_board, s, h1), s)
                    <= evaluate_board(WithHealth(cloned_board, s, h2), s)

\* C17: the search never calls simulate_move for an agent that is dead
\* (health 0 or empty body).
C17_NoMoveForDeadAgent ==
    (pc = "minimax" /\ sim_log # << >>) =>
        /\ MoverBefore.health # 0
        /\ MoverBefore.body # << >>

\* No direction passes is_move_safe for snake i on board b.
NoSafeMove(b, i) == \A d \in Moves : ~ is_move_safe(b, b.snakes[i], d)

\* The agent whose ply has just returned to the innermost active call.
Returner == (Top.current_player_index % Len(cloned_board.snakes)) + 1

\* C16: a ply with depth > 0 whose agent had no safe direction on the board it
\* was entered with returns i32::MIN for the controlled agent and i32::MAX for
\* any other, with the move "none", and leaves the board as it was entered.
C16_NoMovePlyReturnsWorst ==
    [][(/\ pc = "minimax" /\ ret = NoRet /\ stack # << >>
        /\ Top.depth > 0
        /\ NoSafeMove(entered[Len(stack)], Top.current_player_index)
        /\ Len(stack') < Len(stack)) =>
          /\ ret' = [score |-> IF Top.current_player_index = you_index
                               THEN I32_MIN ELSE I32_MAX,
                     move |-> "none"]
          /\ cloned_board' = entered[Len(stack)]]_vars

\* A rival's ply inside the search has just returned from a board on which the
\* rival had no safe direction.
C16_Witness ==
    /\ pc = "minimax" /\ ret # NoRet /\ stack # << >>
    /\ Returner # you_index
    /\ NoSafeMove(cloned_board, Returner)
    /\ ret.move = "none"
    /\ Top.depth > 1

\* Every item of the food vector f is an item of g, and f is no longer than g.
FoodWithin(f, g) ==
    /\ Len(f) <= Len(g)
    /\ \A k \in DOMAIN f : \E j \in DOMAIN g : g[j] = f[k]

\* C18: when a minimax call returns, every snake of the board is as it was
\* when the call was entered, width and height are unchanged and the food is
\* within the food at entry; no step of the search adds food.
C18_ReturnRestoresSnakes ==
    [][(pc = "minimax" /\ pc' = "minimax") =>
          /\ FoodWithin(cloned_board'.food, cloned_board.food)
          /\ cloned_board'.width = cloned_board.width
          /\ cloned_board'.height = cloned_board.height
          /\ (Len(stack') < Len(stack) =>
                /\ cloned_board'.snakes = entered[Len(stack)].snakes
                /\ cloned_board'.width = entered[Len(stack)].width
                /\ cloned_board'.height = entered[Len(stack)].height
                /\ FoodWithin(cloned_board'.food, entered[Len(stack)].food))]_vars

\* The root call of a search on a two-snake board has returned, and the search
\* has eaten the food of the board.
C18_Witness ==
    /\ pc = "minimax" /\ ret # NoRet /\ stack = << >>
    /\ Len(board.snakes) = 2
    /\ cloned_board.snakes = board.snakes
    /\ board.food # << >> /\ cloned_board.food = << >>

\* C19: from a root board with every segment inside the grid and no cell
\* shared by two snakes, on every board the search reaches every body is
\* non-empty, every head is inside the grid and no head lies on a cell of
\* another snake's body.
C19_SearchKeepsHeadsApart ==
    pc = "minimax" =>
        \A s \in DOMAIN cloned_board.snakes :
            LET snake == cloned_board.snakes[s] IN
            /\ snake.body # << >>
            /\ InGrid(cloned_board, snake.body[1])
            /\ \A r \in DOMAIN cloned_board.snakes \ {s} :
                  ~ BodyHas(cloned_board.snakes[r].body, snake.body[1])

\* The search is at its deepest ply on a two-snake board: both snakes have
\* moved, one of them onto the food.
C19_Witness ==
    /\ pc = "minimax" /\ Len(stack) = SearchDepth + 1
    /\ Len(board.snakes) = 2
    /\ \A s \in DOMAIN board.snakes :
          cloned_board.snakes[s].body[1] # board.snakes[s].body[1]
    /\ \E s \in DOMAIN board.snakes : Len(cloned_board.snakes[s].body) = 2

\* The directions that pass is_move_safe for the controlled agent on the
\* request's board, which the search never touches.
SafeOnOriginal == { d \in Moves : is_move_safe(board, board.snakes[you_index], d) }

\* C20: once the game has started, whenever some direction passes is_move_safe
\* for the controlled agent on the request's board, the move get_move emits
\* (the search's or the random fallback's) passes is_move_safe on that board.
C20_EmittedMoveIsSafe ==
    (Answered /\ GAME_STARTED /\ SafeOnOriginal # {}) =>
        LatestAnswer.move \in SafeOnOriginal

\* The search of a two-snake board returned no move although some, not all,
\* directions are safe there, and the fallback answered.
C20_Witness ==
    /\ Answered /\ GAME_STARTED
    /\ SafeOnOriginal # {} /\ SafeOnOriginal # Moves
    /\ LatestAnswer.best_move = "none"
    /\ Len(board.snakes) = 2

====
